---------------------------- MODULE Spec2Model ----------------------------
(***************************************************************************)
(* The PERT/CPM scheduling engine of pert-suite                            *)
(* (apps/pert-chart/src/logic/pert.ts) and the task editor of the          *)
(* pert-chart front end that feeds it (apps/pert-chart/src/App.tsx).       *)
(*                                                                         *)
(* Numbers.  A duration is (optimistic + 4*likely + pessimistic) / 6.      *)
(* Every time value of a node (duration, earlyStart, earlyFinish,          *)
(* lateStart, lateFinish, slack) is kept here as its exact numerator over  *)
(* Scale = 6, so the value 13/6 is the integer 13.  The estimates of a     *)
(* task stay in whole units.  IEEE rounding of the JavaScript doubles is   *)
(* not modelled; it is many orders of magnitude below the 0.01 tolerance   *)
(* of isCritical for the values used here.                                 *)
(*                                                                         *)
(* The display name, category, startDate and timeUnit of a task are        *)
(* carried through by the engine and never read; they are left out.        *)
(***************************************************************************)
EXTENDS Integers, Sequences, FiniteSets, TLC

(***************************************************************************)
(* Bounds of the model.                                                    *)
(***************************************************************************)
MaxTasks == 3        \* longest task list drawn as an input / grown by addTask
MaxEdits == 2        \* editor operations explored after the first render
MaxDepTokens == 2    \* comma separated pieces typed into the dependency box
MaxCalls == 2        \* repeated calls of the engine on one task list

(***************************************************************************)
(* Program constants.                                                      *)
(***************************************************************************)
Scale == 6               \* the divisor of calculateExpectedTime
ToleranceDen == 100      \* isCritical: |slack| < 0.01 = 1 / ToleranceDen
Infinity == 1000000      \* stands for the double Infinity of the backward pass

(***************************************************************************)
(* Input domains.                                                          *)
(***************************************************************************)
IdSeq == <<"1", "2", "3", "4", "5">>
IdOf(i) == IdSeq[i]
Ids == {"1", "2", "3", "4"}
\* ids a drawn dependency list may name; "3" dangles in a list of two tasks
DepIds == {"1", "2", "3"}
\* <<optimistic, likely, pessimistic>>: 12/6, 0 and -6/6
EstimateTriples == {<<1, 2, 3>>, <<0, 0, 0>>, <<-1, -1, -1>>}
EstimateValues == {-1, 0, 3}
EstimateFields == {"optimistic", "likely", "pessimistic"}
RawTokens == Ids \cup {"", " "}

Max(a, b) == IF a >= b THEN a ELSE b
Min(a, b) == IF a <= b THEN a ELSE b
Abs(x) == IF x < 0 THEN -x ELSE x
Range(s) == {s[i] : i \in 1..Len(s)}

Task(id, est, deps) ==
    [id |-> id, optimistic |-> est[1], likely |-> est[2],
     pessimistic |-> est[3], dependencies |-> deps]

(***************************************************************************)
(* A JavaScript Map: the keys in insertion order and the value of each.    *)
(* set() of a key already present keeps its position and replaces the      *)
(* value.                                                                  *)
(***************************************************************************)
EmptyMap == [keys |-> <<>>, val |-> <<>>]
MapHas(m, k) == k \in DOMAIN m.val
MapGet(m, k) == m.val[k]
MapSet(m, k, v) ==
    [keys |-> IF MapHas(m, k) THEN m.keys ELSE Append(m.keys, k),
     val |-> [x \in (DOMAIN m.val) \cup {k} |-> IF x = k THEN v ELSE m.val[x]]]
MapValues(m) == [i \in 1..Len(m.keys) |-> m.val[m.keys[i]]]

(***************************************************************************)
(* pert.ts                                                                 *)
(***************************************************************************)
\* Mutant: the three estimates are put in ascending order first.
calculateExpectedTimeSorted(task) ==
    LET lo == Min(task.optimistic, Min(task.likely, task.pessimistic))
        hi == Max(task.optimistic, Max(task.likely, task.pessimistic))
        mid == task.optimistic + task.likely + task.pessimistic - lo - hi
    IN  lo + 4 * mid + hi

\* numerator over Scale of (optimistic + 4 * likely + pessimistic) / 6
calculateExpectedTime(task) ==
    task.optimistic + 4 * task.likely + task.pessimistic

NewNode(task) ==
    [id |-> task.id, optimistic |-> task.optimistic, likely |-> task.likely,
     pessimistic |-> task.pessimistic, dependencies |-> task.dependencies,
     duration |-> calculateExpectedTime(task),
     earlyStart |-> 0, earlyFinish |-> 0, lateStart |-> 0, lateFinish |-> 0,
     slack |-> 0, isCritical |-> FALSE]

\* Mutant: the node map also gets a node for every dependency id it lacks.
RECURSIVE AddMissingDependencies(_, _, _)
AddMissingDependencies(deps, j, m) ==
    IF j > Len(deps) THEN m
    ELSE AddMissingDependencies(deps, j + 1,
             IF MapHas(m, deps[j]) THEN m
             ELSE MapSet(m, deps[j],
                      NewNode([id |-> deps[j], optimistic |-> 0, likely |-> 0,
                               pessimistic |-> 0, dependencies |-> <<>>])))
RECURSIVE BuildNodeMapAddsDependencies(_, _, _)
BuildNodeMapAddsDependencies(tasks, i, m) ==
    IF i > Len(tasks) THEN m
    ELSE BuildNodeMapAddsDependencies(tasks, i + 1,
             AddMissingDependencies(tasks[i].dependencies, 1,
                 MapSet(m, tasks[i].id, NewNode(tasks[i]))))

\* tasks.forEach(task => nodeMap.set(task.id, {...}))
RECURSIVE BuildNodeMap(_, _, _)
BuildNodeMap(tasks, i, m) ==
    IF i > Len(tasks) THEN m
    ELSE BuildNodeMap(tasks, i + 1, MapSet(m, tasks[i].id, NewNode(tasks[i])))

\* tasks.forEach(t => successorsMap.set(t.id, []))
RECURSIVE InitSuccessors(_, _, _)
InitSuccessors(tasks, i, m) ==
    IF i > Len(tasks) THEN m
    ELSE InitSuccessors(tasks, i + 1, MapSet(m, tasks[i].id, <<>>))

\* const succs = successorsMap.get(depId); if (succs) succs.push(task.id)
PushSuccessor(m, depId, taskId) ==
    IF MapHas(m, depId) THEN MapSet(m, depId, Append(MapGet(m, depId), taskId))
    ELSE m

RECURSIVE PushDependencies(_, _, _, _)
PushDependencies(deps, j, taskId, m) ==
    IF j > Len(deps) THEN m
    ELSE PushDependencies(deps, j + 1, taskId, PushSuccessor(m, deps[j], taskId))

\* Mutant: only the last task of an id declares edges.
RECURSIVE FillSuccessorsOfSurvivors(_, _, _)
FillSuccessorsOfSurvivors(tasks, i, m) ==
    IF i > Len(tasks) THEN m
    ELSE FillSuccessorsOfSurvivors(tasks, i + 1,
             IF \E j \in (i + 1)..Len(tasks) : tasks[j].id = tasks[i].id
             THEN m
             ELSE PushDependencies(tasks[i].dependencies, 1, tasks[i].id, m))

RECURSIVE FillSuccessors(_, _, _)
FillSuccessors(tasks, i, m) ==
    IF i > Len(tasks) THEN m
    ELSE FillSuccessors(tasks, i + 1,
             PushDependencies(tasks[i].dependencies, 1, tasks[i].id, m))

BuildSuccessorsMap(tasks) ==
    FillSuccessors(tasks, 1, InitSuccessors(tasks, 1, EmptyMap))

\* new Map(tasks.map(t => [t.id, t])): the last task of an id wins
RECURSIVE BuildTaskMap(_, _, _)
BuildTaskMap(tasks, i, m) ==
    IF i > Len(tasks) THEN m
    ELSE BuildTaskMap(tasks, i + 1, MapSet(m, tasks[i].id, tasks[i]))

(***************************************************************************)
(* topologicalSort.  st = [ok, visited, temp, order, visits]; ok = FALSE   *)
(* is the `return false` that unwinds every frame of visit; visits counts  *)
(* the calls of visit.                                                     *)
(***************************************************************************)
\* Mutant: the finished id is not remembered as visited.
FinishVisitForgets(st, taskId) ==
    [st EXCEPT !.temp = @ \ {taskId},
               !.order = Append(@, taskId)]

\* Mutant: the finished id is put at the front of the order.
FinishVisitPrepends(st, taskId) ==
    [st EXCEPT !.temp = @ \ {taskId},
               !.visited = @ \cup {taskId},
               !.order = <<taskId>> \o @]

\* temp.delete(taskId); visited.add(taskId); order.push(taskId)
FinishVisit(st, taskId) ==
    [st EXCEPT !.temp = @ \ {taskId},
               !.visited = @ \cup {taskId},
               !.order = Append(@, taskId)]

RECURSIVE visit(_, _, _)
RECURSIVE visitDependencies(_, _, _, _)
\* Mutant: an id in progress is taken for a finished one.
visitWithoutBackEdge(taskId, taskMap, st) ==
    IF taskId \in st.temp \/ taskId \in st.visited
    THEN [st EXCEPT !.visits = @ + 1]
    ELSE LET entered == [st EXCEPT !.temp = @ \cup {taskId}, !.visits = @ + 1]
             after == IF MapHas(taskMap, taskId)
                      THEN visitDependencies(
                               MapGet(taskMap, taskId).dependencies, 1,
                               taskMap, entered)
                      ELSE entered
         IN  IF after.ok THEN FinishVisit(after, taskId) ELSE after

visit(taskId, taskMap, st) ==
    IF taskId \in st.temp THEN [st EXCEPT !.ok = FALSE, !.visits = @ + 1]
    ELSE IF taskId \in st.visited THEN [st EXCEPT !.visits = @ + 1]
    ELSE LET entered == [st EXCEPT !.temp = @ \cup {taskId}, !.visits = @ + 1]
             after == IF MapHas(taskMap, taskId)
                      THEN visitDependencies(
                               MapGet(taskMap, taskId).dependencies, 1,
                               taskMap, entered)
                      ELSE entered
         IN  IF after.ok THEN FinishVisit(after, taskId) ELSE after

visitDependencies(deps, j, taskMap, st) ==
    IF j > Len(deps) THEN st
    ELSE LET next == visit(deps[j], taskMap, st)
         IN  IF next.ok THEN visitDependencies(deps, j + 1, taskMap, next)
             ELSE next

\* for (const task of tasks) if (!visited.has(task.id)) if (!visit(task.id)) return null
RECURSIVE SortLoop(_, _, _, _)
SortLoop(tasks, i, taskMap, st) ==
    IF i > Len(tasks) THEN st
    ELSE IF tasks[i].id \in st.visited THEN SortLoop(tasks, i + 1, taskMap, st)
    ELSE LET next == visit(tasks[i].id, taskMap, st)
         IN  IF next.ok THEN SortLoop(tasks, i + 1, taskMap, next) ELSE next

\* [ok |-> FALSE] is the null result
topologicalSort(tasks) ==
    LET st == SortLoop(tasks, 1, BuildTaskMap(tasks, 1, EmptyMap),
                       [ok |-> TRUE, visited |-> {}, temp |-> {}, order |-> <<>>,
                        visits |-> 0])
    IN  [ok |-> st.ok, order |-> IF st.ok THEN st.order ELSE <<>>,
         visits |-> st.visits]

(***************************************************************************)
(* Forward pass.                                                           *)
(***************************************************************************)
\* Mutant: the last dependency found decides, not the latest one.
RECURSIVE lastPredecessorEF(_, _, _, _)
lastPredecessorEF(deps, j, nodeMap, acc) ==
    IF j > Len(deps) THEN acc
    ELSE lastPredecessorEF(deps, j + 1, nodeMap,
             IF MapHas(nodeMap, deps[j])
             THEN MapGet(nodeMap, deps[j]).earlyFinish
             ELSE acc)

\* Mutant: the early finishes of the dependencies are added up.
RECURSIVE sumPredecessorEF(_, _, _, _)
sumPredecessorEF(deps, j, nodeMap, acc) ==
    IF j > Len(deps) THEN acc
    ELSE sumPredecessorEF(deps, j + 1, nodeMap,
             IF MapHas(nodeMap, deps[j])
             THEN acc + MapGet(nodeMap, deps[j]).earlyFinish
             ELSE acc)

RECURSIVE maxPredecessorEF(_, _, _, _)
maxPredecessorEF(deps, j, nodeMap, acc) ==
    IF j > Len(deps) THEN acc
    ELSE maxPredecessorEF(deps, j + 1, nodeMap,
             IF MapHas(nodeMap, deps[j])
             THEN Max(acc, MapGet(nodeMap, deps[j]).earlyFinish)
             ELSE acc)

\* the body of sortedIds.forEach for an id the node map holds
ForwardStep(nodeMap, id) ==
    LET node == MapGet(nodeMap, id)
        es == maxPredecessorEF(node.dependencies, 1, nodeMap, 0)
    IN  MapSet(nodeMap, id,
               [node EXCEPT !.earlyStart = es,
                            !.earlyFinish = es + node.duration])

\* st = [nodeMap, threw, done, trace]; nodeMap.get(id)! of an id the map
\* lacks is undefined, and reading node.dependencies of it throws a
\* TypeError.  trace lists, in the order of the writes, the id handled and
\* the node as the step left it.
RECURSIVE ForwardPass(_, _, _)
ForwardPass(sortedIds, i, st) ==
    IF i > Len(sortedIds) THEN st
    ELSE IF ~MapHas(st.nodeMap, sortedIds[i]) THEN [st EXCEPT !.threw = TRUE]
    ELSE LET stepped == ForwardStep(st.nodeMap, sortedIds[i])
         IN  ForwardPass(sortedIds, i + 1,
                 [st EXCEPT !.nodeMap = stepped,
                            !.done = @ \cup {sortedIds[i]},
                            !.trace = Append(@, MapGet(stepped, sortedIds[i]))])

(***************************************************************************)
(* Backward pass.                                                          *)
(***************************************************************************)
RECURSIVE MaxEarlyFinish(_, _, _)
MaxEarlyFinish(nodes, i, acc) ==
    IF i > Len(nodes) THEN acc
    ELSE MaxEarlyFinish(nodes, i + 1, Max(acc, nodes[i].earlyFinish))

\* let projectDuration = 0; nodeMap.forEach(n => ... Math.max ...)
ProjectDurationOf(nodeMap) == MaxEarlyFinish(MapValues(nodeMap), 1, 0)

\* Mutant: the late start of the last successor instead of the smallest.
RECURSIVE lastSuccessorLS(_, _, _, _)
lastSuccessorLS(successors, j, nodeMap, acc) ==
    IF j > Len(successors) THEN acc
    ELSE lastSuccessorLS(successors, j + 1, nodeMap,
             IF MapHas(nodeMap, successors[j])
             THEN MapGet(nodeMap, successors[j]).lateStart
             ELSE acc)

RECURSIVE minSuccessorLS(_, _, _, _)
minSuccessorLS(successors, j, nodeMap, acc) ==
    IF j > Len(successors) THEN acc
    ELSE minSuccessorLS(successors, j + 1, nodeMap,
             IF MapHas(nodeMap, successors[j])
             THEN Min(acc, MapGet(nodeMap, successors[j]).lateStart)
             ELSE acc)

Minus(a, b) == IF a = Infinity THEN Infinity ELSE a - b

\* Mutant: slack taken from the late finish instead of the late start.
BackwardStepSlackFromFinish(nodeMap, successorsMap, projectDuration, id) ==
    LET node == MapGet(nodeMap, id)
        successors == IF MapHas(successorsMap, id)
                      THEN MapGet(successorsMap, id) ELSE <<>>
        lf == IF Len(successors) = 0 THEN projectDuration
              ELSE minSuccessorLS(successors, 1, nodeMap, Infinity)
        ls == Minus(lf, node.duration)
        sl == Minus(lf, node.earlyStart)
    IN  MapSet(nodeMap, id,
               [node EXCEPT !.lateFinish = lf, !.lateStart = ls, !.slack = sl,
                            !.isCritical = (ToleranceDen * Abs(sl) < Scale)])

\* Mutant: the flag is taken from the late start instead of the slack.
BackwardStepCriticalFromLateStart(nodeMap, successorsMap, projectDuration, id) ==
    LET node == MapGet(nodeMap, id)
        successors == IF MapHas(successorsMap, id)
                      THEN MapGet(successorsMap, id) ELSE <<>>
        lf == IF Len(successors) = 0 THEN projectDuration
              ELSE minSuccessorLS(successors, 1, nodeMap, Infinity)
        ls == Minus(lf, node.duration)
        sl == Minus(ls, node.earlyStart)
    IN  MapSet(nodeMap, id,
               [node EXCEPT !.lateFinish = lf, !.lateStart = ls, !.slack = sl,
                            !.isCritical = (ToleranceDen * Abs(ls) < Scale)])

\* the body of [...sortedIds].reverse().forEach
BackwardStep(nodeMap, successorsMap, projectDuration, id) ==
    LET node == MapGet(nodeMap, id)
        successors == IF MapHas(successorsMap, id)
                      THEN MapGet(successorsMap, id) ELSE <<>>
        lf == IF Len(successors) = 0 THEN projectDuration
              ELSE minSuccessorLS(successors, 1, nodeMap, Infinity)
        ls == Minus(lf, node.duration)
        sl == Minus(ls, node.earlyStart)
    IN  MapSet(nodeMap, id,
               [node EXCEPT !.lateFinish = lf, !.lateStart = ls, !.slack = sl,
                            !.isCritical = (ToleranceDen * Abs(sl) < Scale)])

\* Mutant: the backward pass walks the order from its front.
RECURSIVE BackwardPassFromFront(_, _, _, _, _)
BackwardPassFromFront(sortedIds, i, successorsMap, projectDuration, st) ==
    IF i < 1 THEN st
    ELSE LET id == sortedIds[Len(sortedIds) + 1 - i]
         IN  IF ~MapHas(st.nodeMap, id) THEN [st EXCEPT !.threw = TRUE]
             ELSE LET stepped == BackwardStep(st.nodeMap, successorsMap,
                                              projectDuration, id)
                  IN  BackwardPassFromFront(sortedIds, i - 1, successorsMap,
                          projectDuration,
                          [st EXCEPT !.nodeMap = stepped,
                                     !.done = @ \cup {id},
                                     !.trace = Append(@, MapGet(stepped, id))])

\* [...sortedIds].reverse().forEach: i runs from the last id to the first
RECURSIVE BackwardPass(_, _, _, _, _)
BackwardPass(sortedIds, i, successorsMap, projectDuration, st) ==
    IF i < 1 THEN st
    ELSE IF ~MapHas(st.nodeMap, sortedIds[i]) THEN [st EXCEPT !.threw = TRUE]
    ELSE LET stepped == BackwardStep(st.nodeMap, successorsMap,
                                     projectDuration, sortedIds[i])
         IN  BackwardPass(sortedIds, i - 1, successorsMap, projectDuration,
                 [st EXCEPT !.nodeMap = stepped,
                            !.done = @ \cup {sortedIds[i]},
                            !.trace = Append(@, MapGet(stepped, sortedIds[i]))])

(***************************************************************************)
(* calculateCPM.  The result records how the call ended (status) and what  *)
(* it returned (nodes); sortedIds, ceiling, forwardDone and backwardDone   *)
(* record the locals of the call for the properties: the order used, the   *)
(* projectDuration local, and the ids each pass has handled; forwardTrace  *)
(* and backwardTrace record the writes of each pass in their order, and    *)
(* visitCalls the number of calls of visit the sort made.                  *)
(***************************************************************************)
\* Mutant: the cycle branch hands out nodes whose early finish is filled in.
CycleResultAfterForward(nodeMap) ==
    [status |-> "cycle",
     nodes |-> [i \in 1..Len(nodeMap.keys) |->
                  [MapGet(nodeMap, nodeMap.keys[i]) EXCEPT
                      !.earlyFinish = MapGet(nodeMap, nodeMap.keys[i]).duration]],
     sortedIds |-> <<>>, ceiling |-> 0, forwardDone |-> {}, backwardDone |-> {},
     forwardTrace |-> <<>>, backwardTrace |-> <<>>, visitCalls |-> 0]

\* Mutant: the cycle branch hands out nodes that lost their duration.
CycleResultWithoutDuration(nodeMap) ==
    [status |-> "cycle",
     nodes |-> [i \in 1..Len(nodeMap.keys) |->
                  [MapGet(nodeMap, nodeMap.keys[i]) EXCEPT !.duration = 0]],
     sortedIds |-> <<>>, ceiling |-> 0, forwardDone |-> {}, backwardDone |-> {},
     forwardTrace |-> <<>>, backwardTrace |-> <<>>, visitCalls |-> 0]

\* the cycle branch: console.error and the freshly initialised nodes
CycleResult(nodeMap) ==
    [status |-> "cycle", nodes |-> MapValues(nodeMap), sortedIds |-> <<>>,
     ceiling |-> 0, forwardDone |-> {}, backwardDone |-> {},
     forwardTrace |-> <<>>, backwardTrace |-> <<>>, visitCalls |-> 0]

\* a TypeError leaves calculateCPM: the caller gets no value
ThrowResult(sortedIds, forward) ==
    [status |-> "TypeError", nodes |-> <<>>, sortedIds |-> sortedIds,
     ceiling |-> 0, forwardDone |-> forward.done, backwardDone |-> {},
     forwardTrace |-> forward.trace, backwardTrace |-> <<>>, visitCalls |-> 0]

calculateCPM(tasks) ==
    LET nodeMap == BuildNodeMap(tasks, 1, EmptyMap)
        successorsMap == BuildSuccessorsMap(tasks)
        sorted == topologicalSort(tasks)
        fwd == ForwardPass(sorted.order, 1,
                   [nodeMap |-> nodeMap, threw |-> FALSE, done |-> {},
                    trace |-> <<>>])
        projectDuration == ProjectDurationOf(fwd.nodeMap)
        bwd == BackwardPass(sorted.order, Len(sorted.order), successorsMap,
                   projectDuration,
                   [nodeMap |-> fwd.nodeMap, threw |-> FALSE, done |-> {},
                    trace |-> <<>>])
        result ==
            IF ~sorted.ok THEN CycleResult(nodeMap)
            ELSE IF fwd.threw THEN ThrowResult(sorted.order, fwd)
            ELSE IF bwd.threw THEN ThrowResult(sorted.order, fwd)
            ELSE [status |-> "ok", nodes |-> MapValues(bwd.nodeMap),
                  sortedIds |-> sorted.order, ceiling |-> projectDuration,
                  forwardDone |-> fwd.done, backwardDone |-> bwd.done,
                  forwardTrace |-> fwd.trace, backwardTrace |-> bwd.trace,
                  visitCalls |-> 0]
    IN  [result EXCEPT !.visitCalls = sorted.visits]

(***************************************************************************)
(* computeCalendarDates.  A date string "YYYY-MM-DD" is kept as the tuple  *)
(* <<year, month, day>> of its fields and the empty string as <<>>.  A     *)
(* Date is kept as [nan, time]: time is its instant in hours since         *)
(* 2025-01-01T00:00Z, and nan holds for an Invalid Date, whose getTime()   *)
(* is NaN.  The years used (2025 to 2027) have                             *)
(* 365 days.  The host's zone is a fixed offset of hostOffset hours east   *)
(* of UTC (getTimezoneOffset() = -60 * hostOffset, no daylight saving).    *)
(***************************************************************************)
InvalidDate == [nan |-> TRUE, time |-> 0]
MonthLengths == <<31, 28, 31, 30, 31, 30, 31, 31, 30, 31, 30, 31>>
RECURSIVE DaysBeforeMonth(_)
DaysBeforeMonth(m) == IF m <= 1 THEN 0 ELSE DaysBeforeMonth(m - 1) + MonthLengths[m - 1]
DayNumber(ymd) == (ymd[1] - 2025) * 365 + DaysBeforeMonth(ymd[2]) + ymd[3] - 1
DateOfDay(n) ==
    LET dayOfYear == n % 365
        month == CHOOSE m \in 1..12 :
                    /\ DaysBeforeMonth(m) <= dayOfYear
                    /\ dayOfYear < DaysBeforeMonth(m) + MonthLengths[m]
    IN  <<2025 + (n \div 365), month, dayOfYear - DaysBeforeMonth(month) + 1>>

\* the fields of a date string are those of a calendar date; days 29 to 31
\* of the shorter months, on which the engines differ, are not drawn
IsCalendarDate(str) ==
    /\ Len(str) = 3
    /\ str[2] \in 1..12
    /\ str[3] \in 1..MonthLengths[str[2]]

\* new Date(projectStartDate + 'T00:00:00'): a date-time without an offset
\* is local time, so the instant is the host's midnight of that day
LocalMidnight(str, offset) ==
    IF IsCalendarDate(str)
    THEN [nan |-> FALSE, time |-> 24 * DayNumber(str) - offset]
    ELSE InvalidDate

\* Math.round of a value kept in sixths: the nearest integer, halves up
MathRound(x) == (x + 3) \div Scale

\* d.setDate(d.getDate() + n): n days later at the same local time
SetDatePlus(date, n) == [date EXCEPT !.time = @ + 24 * n]

\* d.toISOString().split('T')[0]: the date of the instant in UTC
ISODateString(date) == DateOfDay(date.time \div 24)

CalendarRange(node, base) ==
    [startDate |-> ISODateString(SetDatePlus(base, MathRound(node.earlyStart))),
     endDate |-> ISODateString(SetDatePlus(base, MathRound(node.earlyFinish)))]

RECURSIVE ProjectNodes(_, _, _, _)
ProjectNodes(pertNodes, i, base, result) ==
    IF i > Len(pertNodes) THEN result
    ELSE ProjectNodes(pertNodes, i + 1, base,
             MapSet(result, pertNodes[i].id, CalendarRange(pertNodes[i], base)))

\* Mutant: an Invalid Date is projected like the first day of 2025.
computeCalendarDatesWithoutCheck(pertNodes, projectStartDate, offset) ==
    LET base == LocalMidnight(projectStartDate, offset)
    IN  ProjectNodes(pertNodes, 1, base, EmptyMap)

computeCalendarDates(pertNodes, projectStartDate, offset) ==
    LET base == LocalMidnight(projectStartDate, offset)
    IN  IF base.nan THEN EmptyMap
        ELSE ProjectNodes(pertNodes, 1, base, EmptyMap)

(***************************************************************************)
(* App.tsx: the editor.                                                    *)
(***************************************************************************)
DefaultTasks ==
    << Task("1", <<1, 2, 3>>, <<>>),
       Task("2", <<2, 3, 6>>, <<"1">>),
       Task("3", <<1, 2, 4>>, <<"1">>),
       Task("4", <<3, 5, 8>>, <<"2", "3">>) >>

\* createEmptyTask: the id is the random Math.random().toString(36) string
createEmptyTask(id) == Task(id, <<1, 2, 4>>, <<>>)

\* prev.map(t => t.id === id ? { ...t, [field]: value } : t)
updateTask(prev, id, field, value) ==
    [i \in 1..Len(prev) |->
        IF prev[i].id # id THEN prev[i]
        ELSE IF field = "optimistic" THEN [prev[i] EXCEPT !.optimistic = value]
        ELSE IF field = "likely" THEN [prev[i] EXCEPT !.likely = value]
        ELSE IF field = "pessimistic" THEN [prev[i] EXCEPT !.pessimistic = value]
        ELSE [prev[i] EXCEPT !.dependencies = value]]

\* s.trim() of a piece: a piece of white space becomes the empty string
Trim(s) == IF s = " " THEN "" ELSE s

\* depsString.split(',').map(s => s.trim()).filter(Boolean); the string is
\* given by its comma separated pieces
ParseDependencies(pieces) ==
    SelectSeq([i \in 1..Len(pieces) |-> Trim(pieces[i])], LAMBDA s : s # "")

\* pertNodes.reduce((max, node) => Math.max(max, node.earlyFinish), 0)
AppProjectDuration(pertNodes) == MaxEarlyFinish(pertNodes, 1, 0)

VARIABLES
    tasks,            \* App state `tasks`
    cpm,              \* the last calculateCPM(tasks): pertNodes is cpm.nodes
    projectDuration,  \* the memo projectDuration of App
    edits,            \* editor operations applied so far
    pc,               \* "input": not computed yet; "rendered"; "crashed":
                      \* calculateCPM threw while rendering
    projectStartDate, \* App state `projectStartDate`
    calendarDates,    \* the memo calendarDates of App
    hostOffset,       \* hours the clock of the host is ahead of UTC
    other             \* a second caller of calculateCPM: its task list and
                      \* the result of its call

vars == <<tasks, cpm, projectDuration, edits, pc, projectStartDate,
          calendarDates, hostOffset, other>>

NotComputed ==
    [status |-> "none", nodes |-> <<>>, sortedIds |-> <<>>, ceiling |-> 0,
     forwardDone |-> {}, backwardDone |-> {},
     forwardTrace |-> <<>>, backwardTrace |-> <<>>, visitCalls |-> 0]

NoOther == [tasks |-> <<>>, cpm |-> NotComputed]

\* if (!projectStartDate) return new Map(); return computeCalendarDates(...)
AppCalendarDates(result, startDate, offset) ==
    IF result.status = "TypeError" \/ startDate = <<>> THEN EmptyMap
    ELSE computeCalendarDates(result.nodes, startDate, offset)

\* the render that follows every state change: the three useMemo of App
Rendered(result) ==
    /\ cpm = result
    /\ projectDuration = IF result.status = "TypeError" THEN 0
                         ELSE AppProjectDuration(result.nodes)
    /\ pc = IF result.status = "TypeError" THEN "crashed" ELSE "rendered"
    /\ calendarDates = AppCalendarDates(result, projectStartDate, hostOffset)

\* Mutant: the caller's list is left in the order of the sort.
RenderSortingInput(t, startDate) ==
    \E result \in {calculateCPM(t)} :
        /\ tasks' = IF result.status = "ok" /\ Len(result.sortedIds) = Len(t)
                    THEN [i \in 1..Len(t) |->
                             CHOOSE x \in Range(t) : x.id = result.sortedIds[i]]
                    ELSE t
        /\ cpm' = result
        /\ projectDuration' = IF result.status = "TypeError" THEN 0
                              ELSE AppProjectDuration(result.nodes)
        /\ pc' = IF result.status = "TypeError" THEN "crashed" ELSE "rendered"
        /\ projectStartDate' = startDate
        /\ calendarDates' = AppCalendarDates(result, startDate, hostOffset)
        /\ UNCHANGED <<hostOffset, other>>

\* pertNodes is computed once in a render and the other memos read it
Render(t, startDate) ==
    \E result \in {calculateCPM(t)} :
        /\ tasks' = t
        /\ cpm' = result
        /\ projectDuration' = IF result.status = "TypeError" THEN 0
                              ELSE AppProjectDuration(result.nodes)
        /\ pc' = IF result.status = "TypeError" THEN "crashed" ELSE "rendered"
        /\ projectStartDate' = startDate
        /\ calendarDates' = AppCalendarDates(result, startDate, hostOffset)
        /\ UNCHANGED <<hostOffset, other>>

Init ==
    /\ tasks = DefaultTasks
    /\ edits = 0
    /\ projectStartDate = <<>>
    /\ hostOffset = 0
    /\ other = NoOther
    /\ Rendered(calculateCPM(tasks))

CanEdit == pc = "rendered" /\ edits < MaxEdits

AddTask ==
    /\ CanEdit
    /\ Len(tasks) < MaxTasks
    /\ \E id \in Ids : Render(Append(tasks, createEmptyTask(id)), projectStartDate)
    /\ edits' = edits + 1

RemoveTask ==
    /\ CanEdit
    /\ \E id \in Range([i \in 1..Len(tasks) |-> tasks[i].id]) :
          Render(SelectSeq(tasks, LAMBDA t : t.id # id), projectStartDate)
    /\ edits' = edits + 1

UpdateEstimate ==
    /\ CanEdit
    /\ \E i \in 1..Len(tasks), field \in EstimateFields, value \in EstimateValues :
          Render(updateTask(tasks, tasks[i].id, field, value), projectStartDate)
    /\ edits' = edits + 1

DepStrings == UNION {[1..n -> RawTokens] : n \in 0..MaxDepTokens}

UpdateDependencies ==
    /\ CanEdit
    /\ \E i \in 1..Len(tasks), pieces \in DepStrings :
          Render(updateTask(tasks, tasks[i].id, "dependencies",
                            ParseDependencies(pieces)), projectStartDate)
    /\ edits' = edits + 1

\* the New Project button: setTasks([]) and setProjectStartDate('')
NewProject ==
    /\ CanEdit
    /\ Render(<<>>, <<>>)
    /\ edits' = edits + 1

Next ==
    \/ AddTask
    \/ RemoveTask
    \/ UpdateEstimate
    \/ UpdateDependencies
    \/ NewProject

Spec == Init /\ [][Next]_vars

(***************************************************************************)
(* calculateCPM as a function of its input: the input is drawn, then the   *)
(* function is applied to it.                                              *)
(***************************************************************************)
SeqOfIds(S) == SelectSeq(IdSeq, LAMBDA x : x \in S)

\* lists in which two tasks share an id: two written out, and every list of
\* the tasks "1", "2", "1" of 2, 2.5 and 3 days with dependencies on "1", "2"
DuplicateIdProjects ==
    { << Task("1", <<1, 2, 3>>, <<>>), Task("2", <<1, 2, 3>>, <<"1">>),
         Task("1", <<0, 0, 0>>, <<>>) >>,
      << Task("1", <<1, 2, 3>>, <<"2">>), Task("2", <<1, 2, 3>>, <<>>),
         Task("1", <<1, 2, 3>>, <<>>) >> }
    \cup { << Task("1", <<1, 2, 3>>, SeqOfIds(deps[1])),
              Task("2", <<2, 2, 5>>, SeqOfIds(deps[2])),
              Task("1", <<0, 3, 6>>, SeqOfIds(deps[3])) >> :
             deps \in [1..3 -> SUBSET {"1", "2"}] }

\* lists whose estimates are not in ascending order
UnsortedEstimateProjects ==
    { << Task("1", <<1, 4, 2>>, <<>>), Task("2", <<6, -1, 0>>, <<"1">>) >>,
      << Task("1", <<3, 1, 2>>, <<"1">>) >> }

InitCPM ==
    /\ \/ \E k \in 0..MaxTasks :
            \E deps \in [1..k -> SUBSET DepIds], est \in [1..k -> EstimateTriples] :
               tasks = [i \in 1..k |-> Task(IdOf(i), est[i], SeqOfIds(deps[i]))]
       \/ tasks = DefaultTasks
       \/ tasks \in DuplicateIdProjects
       \/ tasks \in UnsortedEstimateProjects
    /\ cpm = NotComputed
    /\ projectDuration = 0
    /\ edits = 0
    /\ pc = "input"
    /\ projectStartDate = <<>>
    /\ calendarDates = EmptyMap
    /\ hostOffset = 0
    /\ other = NoOther

Compute ==
    /\ pc = "input"
    /\ Render(tasks, projectStartDate)
    /\ UNCHANGED edits

NextCPM == Compute

SpecCPM == InitCPM /\ [][NextCPM]_vars

(***************************************************************************)
(* The calendar projection of the front end: a project is on screen, the   *)
(* host runs at some offset from UTC, and the user sets the project start  *)
(* date (the date input, or the startDate of a loaded project).            *)
(***************************************************************************)
\* 30/6 = 5, 13/6 = 2.17, 15/6 = 2.5 and -6/6 = -1 days
CalendarEstimates == {<<5, 5, 5>>, <<1, 2, 4>>, <<2, 2, 5>>, <<-1, -1, -1>>}
CalendarProjects ==
    { << Task("1", a, <<>>), Task("2", b, <<"1">>) >> :
         a \in CalendarEstimates, b \in CalendarEstimates }
    \cup { DefaultTasks, << Task("1", <<5, 5, 5>>, <<"1">>) >> }
\* New York, UTC, Paris and Tokyo in winter
HostOffsets == {-5, 0, 1, 9}
\* dates, the empty string, and strings that name month 13 and month 0
StartDateInputs ==
    { <<2026, 1, 1>>, <<2026, 1, 30>>, <<2026, 12, 30>>, <<2026, 3, 1>>,
      <<>>, <<2026, 13, 1>>, <<2026, 0, 10>> }

InitCalendar ==
    /\ tasks \in CalendarProjects
    /\ hostOffset \in HostOffsets
    /\ projectStartDate = <<>>
    /\ edits = 0
    /\ other = NoOther
    /\ Rendered(calculateCPM(tasks))

\* onChange={e => setProjectStartDate(e.target.value)} and the render
SetProjectStartDate ==
    /\ pc = "rendered"
    /\ \E value \in StartDateInputs : Render(tasks, value)
    /\ UNCHANGED edits

NextCalendar == SetProjectStartDate

SpecCalendar == InitCalendar /\ [][NextCalendar]_vars

(***************************************************************************)
(* Two callers of the engine.  The first holds tasks and calls             *)
(* calculateCPM and computeCalendarDates on it, once and then again; the   *)
(* second calls calculateCPM on its own list, which is the same list or a  *)
(* different one, before, between or after the calls of the first.  A call *)
(* is synchronous and has no suspension point, so the calls follow each    *)
(* other in some order and never overlap.                                  *)
(***************************************************************************)
CallProjects ==
    UNION { { [i \in 1..k |-> Task(IdOf(i), <<1, 2, 3>>, SeqOfIds(deps[i]))] :
                 deps \in [1..k -> SUBSET DepIds] } : k \in 0..2 }
OtherProjects ==
    { DefaultTasks,
      << Task("1", <<1, 2, 4>>, <<"2">>), Task("2", <<1, 2, 4>>, <<"1">>) >> }

InitCalls ==
    /\ tasks \in CallProjects
    /\ \E o \in {tasks} \cup OtherProjects : other = [tasks |-> o, cpm |-> NotComputed]
    /\ cpm = NotComputed
    /\ projectDuration = 0
    /\ edits = 0
    /\ pc = "input"
    /\ projectStartDate = <<2026, 1, 30>>
    /\ calendarDates = EmptyMap
    /\ hostOffset = 0

\* the first caller calls again on the list it still holds
CallAgain ==
    /\ pc # "input"
    /\ edits < MaxCalls
    /\ Render(tasks, projectStartDate)
    /\ edits' = edits + 1

\* Mutant: the visited set outlives the call, so a call that follows one on
\* the same list finds every id visited and hands out untouched nodes.
CallOtherSharingVisited ==
    /\ other.cpm.status = "none"
    /\ other' = [other EXCEPT !.cpm =
                    IF pc # "input" /\ other.tasks = tasks
                    THEN [CycleResult(BuildNodeMap(other.tasks, 1, EmptyMap))
                             EXCEPT !.status = "ok"]
                    ELSE calculateCPM(other.tasks)]
    /\ UNCHANGED <<tasks, cpm, projectDuration, edits, pc, projectStartDate,
                   calendarDates, hostOffset>>

\* the second caller calls calculateCPM on its list
CallOther ==
    /\ other.cpm.status = "none"
    /\ other' = [other EXCEPT !.cpm = calculateCPM(other.tasks)]
    /\ UNCHANGED <<tasks, cpm, projectDuration, edits, pc, projectStartDate,
                   calendarDates, hostOffset>>

NextCalls ==
    \/ Compute
    \/ CallAgain
    \/ CallOther

SpecCalls == InitCalls /\ [][NextCalls]_vars

(***************************************************************************)
(* Vocabulary of the properties: the dependency graph of a task list,      *)
(* stated without the engine.                                              *)
(***************************************************************************)
TaskIds(ts) == {ts[i].id : i \in 1..Len(ts)}
UniqueIds(ts) == \A i, j \in 1..Len(ts) : ts[i].id = ts[j].id => i = j
DepsOf(ts, id) ==
    UNION {Range(ts[i].dependencies) : i \in {j \in 1..Len(ts) : ts[j].id = id}}
\* the tasks that list id as a dependency
DependentsOf(ts, id) == {i \in 1..Len(ts) : id \in Range(ts[i].dependencies)}
HasDangling(ts) == \E i \in 1..Len(ts) : ~(Range(ts[i].dependencies) \subseteq TaskIds(ts))

RECURSIVE ReachableFrom(_, _, _)
ReachableFrom(ts, S, n) ==
    IF n = 0 \/ S = {} THEN S
    ELSE LET next == S \cup UNION {DepsOf(ts, x) : x \in S}
         IN  IF next = S THEN S ELSE ReachableFrom(ts, next, n - 1)
\* no task is reachable from itself along one or more dependency edges
Acyclic(ts) ==
    \A id \in TaskIds(ts) : id \notin ReachableFrom(ts, DepsOf(ts, id), Len(ts))

NonNegativeEstimates(ts) ==
    \A i \in 1..Len(ts) :
        ts[i].optimistic >= 0 /\ ts[i].likely >= 0 /\ ts[i].pessimistic >= 0
NonNegativeDurations(ts) ==
    \A i \in 1..Len(ts) : ts[i].optimistic + 4 * ts[i].likely + ts[i].pessimistic >= 0

\* the task list with every dependency id that names no task deleted
WithoutDangling(ts) ==
    [i \in 1..Len(ts) |->
        [ts[i] EXCEPT !.dependencies = SelectSeq(@, LAMBDA d : d \in TaskIds(ts))]]

Computed == pc # "input"
Returned == cpm.status \in {"ok", "cycle"}
NodeIds == {cpm.nodes[i].id : i \in 1..Len(cpm.nodes)}
NodeById(nodes, id) == CHOOSE n \in Range(nodes) : n.id = id
OneNodePerTask ==
    /\ Len(cpm.nodes) = Len(tasks)
    /\ \A i \in 1..Len(tasks) : cpm.nodes[i].id = tasks[i].id

SetMax(S) == CHOOSE x \in S : \A y \in S : y <= x
SetMin(S) == CHOOSE x \in S : \A y \in S : x <= y

(***************************************************************************)
(* C1.  Dangling dependency tolerance: a task list in which some task      *)
(* names a dependency id that is no task's id, and which is otherwise      *)
(* acyclic, makes calculateCPM return normally with one fully computed     *)
(* node per task, each earlyStart being what it is when the missing ids    *)
(* are deleted from the dependency lists; the missing id is a key or a     *)
(* member of no successor list.                                            *)
(***************************************************************************)
SuccessorListsClean ==
    LET succ == BuildSuccessorsMap(tasks)
    IN  /\ Range(succ.keys) \subseteq TaskIds(tasks)
        /\ \A k \in DOMAIN succ.val : Range(succ.val[k]) \subseteq TaskIds(tasks)

C1_DanglingTolerated ==
    (Computed /\ UniqueIds(tasks) /\ HasDangling(tasks) /\ Acyclic(tasks)) =>
        /\ cpm.status = "ok"
        /\ OneNodePerTask
        /\ LET clean == calculateCPM(WithoutDangling(tasks)).nodes
           IN  \A i \in 1..Len(cpm.nodes) :
                  cpm.nodes[i].earlyStart = clean[i].earlyStart
        /\ SuccessorListsClean

(***************************************************************************)
(* C2.  As claimed: a task list with a dependency cycle makes calculateCPM *)
(* fail with a cycle error and return no node set; every call either      *)
(* returns nodes that both passes have fully populated or fails.           *)
(***************************************************************************)
ZeroNode(n) ==
    /\ n.earlyStart = 0 /\ n.earlyFinish = 0 /\ n.lateStart = 0
    /\ n.lateFinish = 0 /\ n.slack = 0 /\ n.isCritical = FALSE
HandledByBothPasses ==
    \A i \in 1..Len(cpm.nodes) :
        cpm.nodes[i].id \in cpm.forwardDone \cap cpm.backwardDone
HandledByNoPass ==
    /\ cpm.forwardDone = {} /\ cpm.backwardDone = {}
    /\ \A i \in 1..Len(cpm.nodes) : ZeroNode(cpm.nodes[i])

C3_OnlyCycleAborts ==
    /\ cpm.status \in {"ok", "cycle"}
    /\ UniqueIds(tasks) => OneNodePerTask

ValidDag == UniqueIds(tasks) /\ Acyclic(tasks)
\* every dependency id names a task of the list
Resolvable == ~HasDangling(tasks)
\* one node per task, each handled by both passes
FullResult == cpm.status = "ok" /\ OneNodePerTask

(***************************************************************************)
(* C5.  Critical path existence: for every non-empty acyclic task list     *)
(* with non-negative estimates calculateCPM returns at least one node with *)
(* isCritical = true.                                                      *)
(***************************************************************************)
SomeNodeCritical == \E i \in 1..Len(cpm.nodes) : cpm.nodes[i].isCritical

C5_CriticalNodeExists ==
    (Computed /\ tasks # <<>> /\ ValidDag /\ NonNegativeEstimates(tasks)) =>
        FullResult /\ SomeNodeCritical

\* the same with every dependency id naming a task of the list
C5_CriticalNodeExistsWhenResolvable ==
    (Computed /\ tasks # <<>> /\ ValidDag /\ NonNegativeEstimates(tasks)
        /\ Resolvable) =>
        FullResult /\ SomeNodeCritical

(***************************************************************************)
(* C6.  Critical chain: for every non-empty acyclic task list the nodes    *)
(* flagged isCritical contain a chain n1..nk where n1 has no dependencies, *)
(* nk has no successors, each n(i+1) lists n(i) as a dependency with       *)
(* earlyStart(n(i+1)) = earlyFinish(n(i)), and the durations of the chain  *)
(* sum to the project duration (the maximum earlyFinish of all nodes).     *)
(***************************************************************************)
CriticalNodes == {n \in Range(cpm.nodes) : n.isCritical}
\* <<id, sum>>: a chain of critical nodes from a dependency-free node to
\* the node id along tight edges, with the sum of its durations
ChainStarts == {<<n.id, n.duration>> : n \in {m \in CriticalNodes : m.dependencies = <<>>}}
ChainExtend(S) ==
    S \cup UNION {
        {<<m.id, p[2] + m.duration>> :
            m \in {x \in CriticalNodes :
                      /\ p[1] \in Range(x.dependencies)
                      /\ x.earlyStart = NodeById(cpm.nodes, p[1]).earlyFinish}}
        : p \in S}
RECURSIVE ChainClosure(_, _)
ChainClosure(S, n) == IF n = 0 THEN S ELSE ChainClosure(ChainExtend(S), n - 1)
CriticalChains == ChainClosure(ChainStarts, Len(cpm.nodes))
MaxEarlyFinishOfNodes == SetMax({cpm.nodes[i].earlyFinish : i \in 1..Len(cpm.nodes)})
SomeCriticalChain ==
    \E p \in CriticalChains :
        /\ DependentsOf(tasks, p[1]) = {}
        /\ p[2] = MaxEarlyFinishOfNodes

C6_CriticalChainExists ==
    (Computed /\ tasks # <<>> /\ ValidDag /\ NonNegativeEstimates(tasks)) =>
        FullResult /\ SomeCriticalChain

C6_CriticalChainExistsWhenResolvable ==
    (Computed /\ tasks # <<>> /\ ValidDag /\ NonNegativeEstimates(tasks)
        /\ Resolvable) =>
        FullResult /\ SomeCriticalChain

(***************************************************************************)
(* C7.  Forward pass result: every node of an acyclic task list has        *)
(* earlyStart equal to the maximum earlyFinish of its dependencies that    *)
(* are tasks of the list, 0 when there is none, and earlyFinish =          *)
(* earlyStart + duration; so its earlyStart is >= the earlyFinish of each  *)
(* such dependency.                                                        *)
(***************************************************************************)
ResolvableDeps(n) == {d \in Range(n.dependencies) : d \in TaskIds(tasks)}
ForwardResult(n) ==
    LET efs == {NodeById(cpm.nodes, d).earlyFinish : d \in ResolvableDeps(n)}
    IN  /\ n.earlyStart = IF efs = {} THEN 0 ELSE SetMax(efs)
        /\ n.earlyFinish = n.earlyStart + n.duration
        /\ \A ef \in efs : n.earlyStart >= ef
AllForwardResults == \A i \in 1..Len(cpm.nodes) : ForwardResult(cpm.nodes[i])

C7_ForwardPassResult ==
    (Computed /\ ValidDag /\ NonNegativeEstimates(tasks)) =>
        FullResult /\ AllForwardResults

C7_ForwardPassResultWhenResolvable ==
    (Computed /\ ValidDag /\ NonNegativeEstimates(tasks) /\ Resolvable) =>
        FullResult /\ AllForwardResults

(***************************************************************************)
(* C8.  Backward pass result: every node of an acyclic task list has       *)
(* lateFinish equal to the project duration when no task lists it as a     *)
(* dependency, and to the minimum lateStart of the tasks that list it      *)
(* otherwise; lateStart = lateFinish - duration.                           *)
(***************************************************************************)
BackwardResult(n) ==
    LET lss == {cpm.nodes[j].lateStart : j \in DependentsOf(tasks, n.id)}
    IN  /\ n.lateFinish = IF lss = {} THEN cpm.ceiling ELSE SetMin(lss)
        /\ n.lateStart = n.lateFinish - n.duration
AllBackwardResults == \A i \in 1..Len(cpm.nodes) : BackwardResult(cpm.nodes[i])

C8_BackwardPassResult ==
    (Computed /\ ValidDag) => FullResult /\ AllBackwardResults

C8_BackwardPassResultWhenResolvable ==
    (Computed /\ ValidDag /\ Resolvable) => FullResult /\ AllBackwardResults

(***************************************************************************)
(* C9.  Project duration is the longest chain: for every acyclic task list *)
(* with non-negative durations the project duration (the ceiling of the    *)
(* backward pass, and the front end's maximum earlyFinish of the returned  *)
(* nodes) is the largest sum of durations along a dependency chain, and    *)
(* every node's earlyFinish is the largest such sum over the chains that   *)
(* end at the node.                                                        *)
(***************************************************************************)
\* the sums of the durations of the dependency chains that end at task i
RECURSIVE ChainSums(_, _)
ChainSums(ts, i) ==
    LET d == ts[i].optimistic + 4 * ts[i].likely + ts[i].pessimistic
    IN  {d} \cup UNION {{s + d : s \in ChainSums(ts, j)} :
                           j \in {k \in 1..Len(ts) : ts[k].id \in Range(ts[i].dependencies)}}
LongestChainTo(ts, i) == SetMax(ChainSums(ts, i))
LongestChain(ts) ==
    IF ts = <<>> THEN 0 ELSE SetMax({LongestChainTo(ts, i) : i \in 1..Len(ts)})
LongestChainResult ==
    /\ cpm.ceiling = LongestChain(tasks)
    /\ projectDuration = LongestChain(tasks)
    /\ \A i \in 1..Len(cpm.nodes) :
          cpm.nodes[i].earlyFinish = LongestChainTo(tasks, i)

C9_ProjectDurationIsLongestChain ==
    (Computed /\ ValidDag /\ NonNegativeDurations(tasks)) =>
        FullResult /\ LongestChainResult

C9_ProjectDurationIsLongestChainWhenResolvable ==
    (Computed /\ ValidDag /\ NonNegativeDurations(tasks) /\ Resolvable) =>
        FullResult /\ LongestChainResult

(***************************************************************************)
(* C10.  Node set equals task set: for every task list with unique ids the *)
(* nodes calculateCPM returns, on the success path and on the cycle path,  *)
(* carry exactly the ids of the input tasks: none is added (none for a     *)
(* dependency id that names no task) and none is dropped.                  *)
(***************************************************************************)
C10_NodeSetEqualsTaskSet ==
    (Computed /\ Returned /\ UniqueIds(tasks)) =>
        /\ NodeIds = TaskIds(tasks)
        /\ Len(cpm.nodes) = Len(tasks)

\* nodes were returned for a list that names a missing dependency id
C10_Witness ==
    /\ Computed /\ Returned /\ UniqueIds(tasks)
    /\ Len(tasks) >= 2 /\ HasDangling(tasks)
    /\ Len(cpm.nodes) = Len(tasks)

(***************************************************************************)
(* C11.  Topological order: whenever topologicalSort succeeds (returns an  *)
(* order, not null), every task id appears in the returned order, and      *)
(* after the ids of all of its dependencies.                               *)
(***************************************************************************)
\* topologicalSort returned an order: calculateCPM went on to the passes
SortSucceeded == cpm.status \in {"ok", "TypeError"}
Positions(order, id) == {k \in 1..Len(order) : order[k] = id}
Before(order, a, b) ==
    \E i \in Positions(order, a) : \A j \in Positions(order, b) : i < j

C11_TopologicalOrder ==
    (Computed /\ UniqueIds(tasks) /\ SortSucceeded) =>
        \A i \in 1..Len(tasks) :
            /\ Positions(cpm.sortedIds, tasks[i].id) # {}
            /\ \A d \in Range(tasks[i].dependencies) :
                  Before(cpm.sortedIds, d, tasks[i].id)

\* the first task of the list depends on a later one, which the order
\* therefore puts first
C11_Witness ==
    /\ Computed /\ UniqueIds(tasks) /\ cpm.status = "ok" /\ Len(tasks) = 3
    /\ tasks[1].dependencies = <<"2", "3">>
    /\ tasks[2].dependencies = <<"3">>
    /\ cpm.sortedIds = <<"3", "2", "1">>

(***************************************************************************)
(* C12.  As claimed: for every node returned by calculateCPM, on every     *)
(* return path, isCritical is true exactly when |slack| < 0.01.            *)
(***************************************************************************)
\* |slack| < 0.01 with slack kept as its numerator over Scale
WithinTolerance(slack) == ToleranceDen * Abs(slack) < Scale
FlagMatchesSlack(n) == n.isCritical <=> WithinTolerance(n.slack)

ScenarioTasks ==
    << Task("1", <<1, 2, 3>>, <<>>),
       Task("2", <<2, 3, 6>>, <<"1">>),
       Task("3", <<1, 2, 4>>, <<"1">>),
       Task("4", <<3, 5, 8>>, <<"2", "3">>) >>
ScenarioTimes(n, duration, earlyStart, earlyFinish) ==
    /\ n.duration = duration
    /\ n.earlyStart = earlyStart
    /\ n.earlyFinish = earlyFinish

C13_ConcreteScenario ==
    (Computed /\ tasks = ScenarioTasks) =>
        /\ cpm.status = "ok" /\ OneNodePerTask
        /\ ScenarioTimes(cpm.nodes[1], 12, 0, 12)
        /\ ScenarioTimes(cpm.nodes[2], 20, 12, 32)
        /\ ScenarioTimes(cpm.nodes[3], 13, 12, 25)
        /\ ScenarioTimes(cpm.nodes[4], 31, 32, 63)
        /\ cpm.ceiling = 63 /\ projectDuration = 63
        /\ {i \in 1..4 : cpm.nodes[i].isCritical} = {1, 2, 4}
        /\ cpm.nodes[3].slack > 0

\* the scenario has been computed
C13_Witness ==
    /\ Computed /\ tasks = ScenarioTasks
    /\ Len(cpm.nodes) = 4 /\ cpm.nodes[4].earlyFinish = 63

(***************************************************************************)
(* C14.  Expected duration: every returned node carries the three          *)
(* estimates of its task as given and has 6 * duration = optimistic +      *)
(* 4 * likely + pessimistic of that task, with no validation or reordering *)
(* of the estimates (the duration of a node is kept as 6 * duration).      *)
(***************************************************************************)
C14_ExpectedDuration ==
    (Computed /\ Returned /\ UniqueIds(tasks)) =>
        /\ OneNodePerTask
        /\ \A i \in 1..Len(cpm.nodes) :
              LET n == cpm.nodes[i]
                  t == tasks[i]
              IN  /\ n.optimistic = t.optimistic
                  /\ n.likely = t.likely
                  /\ n.pessimistic = t.pessimistic
                  /\ n.duration = t.optimistic + 4 * t.likely + t.pessimistic

\* a returned node whose likely estimate is the largest of the three, and
\* one whose duration is negative
C14_Witness ==
    /\ Computed /\ cpm.status = "ok"
    /\ \E i, j \in 1..Len(cpm.nodes) :
          /\ cpm.nodes[i].likely > cpm.nodes[i].pessimistic
          /\ cpm.nodes[i].duration = 19
          /\ cpm.nodes[j].optimistic > cpm.nodes[j].pessimistic
          /\ cpm.nodes[j].duration = 2

(***************************************************************************)
(* C15.  Calendar projection: for every valid project start date and every *)
(* node, computeCalendarDates maps the node's id to startDate = start date *)
(* + round(earlyStart) whole days and endDate = start date +               *)
(* round(earlyFinish) whole days, day 0 being the start date itself, for   *)
(* every offset of the host clock from UTC; start 2026-01-01 with          *)
(* earlyStart 0 and earlyFinish 5 gives 2026-01-01 and 2026-01-06.         *)
(***************************************************************************)
\* the calendar date k days after a date
DaysAfter(ymd, k) == DateOfDay(DayNumber(ymd) + k)
\* the nearest whole number of days, a half counting up
RoundedDays(x) == CHOOSE k \in -400..400 : 6 * k - 3 <= x /\ x < 6 * k + 3
ProjectedFromStartDate ==
    \A i \in 1..Len(cpm.nodes) :
        LET n == cpm.nodes[i]
        IN  /\ MapHas(calendarDates, n.id)
            /\ MapGet(calendarDates, n.id) =
                  [startDate |-> DaysAfter(projectStartDate, RoundedDays(n.earlyStart)),
                   endDate |-> DaysAfter(projectStartDate, RoundedDays(n.earlyFinish))]
ClaimedExample ==
    \A i \in 1..Len(cpm.nodes) :
        (/\ projectStartDate = <<2026, 1, 1>>
         /\ cpm.nodes[i].earlyStart = 0 /\ cpm.nodes[i].earlyFinish = 30) =>
            MapGet(calendarDates, cpm.nodes[i].id) =
                [startDate |-> <<2026, 1, 1>>, endDate |-> <<2026, 1, 6>>]

C15_CalendarProjection ==
    (pc = "rendered" /\ IsCalendarDate(projectStartDate)) =>
        ProjectedFromStartDate /\ ClaimedExample

\* the same on the hosts whose clock is not ahead of UTC
C15_CalendarProjectionWestOfUtc ==
    (pc = "rendered" /\ IsCalendarDate(projectStartDate) /\ hostOffset <= 0) =>
        ProjectedFromStartDate /\ ClaimedExample

\* on every host whose clock is ahead of UTC every date is one day early
C15_OneDayEarlyEastOfUtc ==
    (pc = "rendered" /\ IsCalendarDate(projectStartDate) /\ hostOffset > 0) =>
        \A i \in 1..Len(cpm.nodes) :
            MapGet(calendarDates, cpm.nodes[i].id) =
                [startDate |-> DaysAfter(projectStartDate,
                                         RoundedDays(cpm.nodes[i].earlyStart) - 1),
                 endDate |-> DaysAfter(projectStartDate,
                                       RoundedDays(cpm.nodes[i].earlyFinish) - 1)]

(***************************************************************************)
(* C16.  Invalid start date: when the project start date cannot be parsed  *)
(* computeCalendarDates returns an empty map without throwing, for every   *)
(* node list; the early/late/slack values of the nodes are the same        *)
(* whatever start date is supplied (they are those calculateCPM gives for  *)
(* the task list alone).                                                   *)
(***************************************************************************)
C16_InvalidStartDate ==
    pc = "rendered" =>
        /\ ~IsCalendarDate(projectStartDate) =>
              /\ calendarDates = EmptyMap
              /\ computeCalendarDates(cpm.nodes, projectStartDate, hostOffset)
                    = EmptyMap
        /\ cpm = calculateCPM(tasks)

\* a start date naming month 13 has been set for a computed two-task list
C16_Witness ==
    /\ pc = "rendered" /\ cpm.status = "ok" /\ Len(cpm.nodes) = 2
    /\ projectStartDate = <<2026, 13, 1>>
    /\ cpm.nodes[2].earlyFinish > 0
    /\ calendarDates = EmptyMap

(***************************************************************************)
(* C18.  Cycle detection is exact: topologicalSort reports failure         *)
(* (returns null, so calculateCPM takes its cycle branch) if and only if   *)
(* some task is reachable from itself by following dependency edges one or *)
(* more times, a task that lists its own id included, wherever the cycle   *)
(* sits in the input list.                                                 *)
(***************************************************************************)
C18_CycleDetectionExact ==
    (Computed /\ UniqueIds(tasks)) =>
        LET acyclic == Acyclic(tasks)
        IN  /\ (cpm.status = "cycle") <=> ~acyclic
            /\ SortSucceeded <=> acyclic

\* a list whose last task lists itself, behind two tasks off the cycle, has
\* been reported
C18_Witness ==
    /\ Computed /\ UniqueIds(tasks) /\ Len(tasks) = 3
    /\ tasks[1].dependencies = <<>>
    /\ tasks[2].dependencies = <<"1">>
    /\ tasks[3].dependencies = <<"3">>
    /\ cpm.status = "cycle"

(***************************************************************************)
(* C19.  Pass ordering: in the forward pass, at the moment a node's        *)
(* earlyStart is computed every resolvable dependency of it has already    *)
(* received its final earlyFinish; in the backward pass, at the moment a   *)
(* node's lateFinish is computed every task that lists it as a dependency  *)
(* has already received its final lateStart; no early or late field is     *)
(* written again after the pass has handled its node.                      *)
(***************************************************************************)
\* the writes of a pass to the node id that come before write k
EarlierWrites(trace, k, id) == {j \in 1..(k - 1) : trace[j].id = id}
WrittenOnce(trace) ==
    \A j, k \in 1..Len(trace) : trace[j].id = trace[k].id => j = k
\* the node a pass wrote is the node returned, in the fields of that pass
EarlyFieldsFinal(trace) ==
    \A k \in 1..Len(trace) :
        LET n == NodeById(cpm.nodes, trace[k].id)
        IN  n.earlyStart = trace[k].earlyStart /\ n.earlyFinish = trace[k].earlyFinish
LateFieldsFinal(trace) ==
    \A k \in 1..Len(trace) :
        LET n == NodeById(cpm.nodes, trace[k].id)
        IN  n.lateStart = trace[k].lateStart /\ n.lateFinish = trace[k].lateFinish
ForwardInOrder ==
    \A k \in 1..Len(cpm.forwardTrace) :
        \A d \in ResolvableDeps(cpm.forwardTrace[k]) :
            EarlierWrites(cpm.forwardTrace, k, d) # {}
BackwardInOrder ==
    \A k \in 1..Len(cpm.backwardTrace) :
        \A j \in DependentsOf(tasks, cpm.backwardTrace[k].id) :
            EarlierWrites(cpm.backwardTrace, k, tasks[j].id) # {}

C19_PassOrdering ==
    (Computed /\ UniqueIds(tasks)) =>
        /\ ForwardInOrder /\ WrittenOnce(cpm.forwardTrace)
        /\ BackwardInOrder /\ WrittenOnce(cpm.backwardTrace)
        /\ cpm.status = "ok" =>
              /\ EarlyFieldsFinal(cpm.forwardTrace)
              /\ LateFieldsFinal(cpm.backwardTrace)
              /\ Len(cpm.forwardTrace) = Len(tasks)
              /\ Len(cpm.backwardTrace) = Len(tasks)

\* both passes have handled a list of three tasks that is given with the
\* dependent tasks first
C19_Witness ==
    /\ Computed /\ UniqueIds(tasks) /\ cpm.status = "ok" /\ Len(tasks) = 3
    /\ tasks[1].dependencies = <<"2", "3">>
    /\ tasks[2].dependencies = <<"3">>
    /\ Len(cpm.forwardTrace) = 3 /\ cpm.forwardTrace[1].id = "3"
    /\ Len(cpm.backwardTrace) = 3 /\ cpm.backwardTrace[1].id = "1"
    /\ cpm.backwardTrace[3].lateStart = 0

(***************************************************************************)
(* C17.  Idempotence / determinism: two calls of calculateCPM on the same  *)
(* unmutated task list return identical node lists (the same ids in the    *)
(* same order with the same field values), and topologicalSort returns the *)
(* same order for the same input ordering.                                 *)
(***************************************************************************)
BothCalled == cpm.status # "none" /\ other.cpm.status # "none"

CallLeavesInputsAndResults ==
    /\ tasks' = tasks
    /\ other'.tasks = other.tasks
    /\ projectStartDate' = projectStartDate
    /\ cpm.status # "none" => cpm' = cpm /\ calendarDates' = calendarDates
    /\ other.cpm.status # "none" => other'.cpm = other.cpm
    /\ cpm'.status # "none" =>
          /\ cpm' = calculateCPM(tasks)
          /\ calendarDates' = AppCalendarDates(cpm', projectStartDate, hostOffset)
    /\ other'.cpm.status # "none" => other'.cpm = calculateCPM(other.tasks)

RECURSIVE SumOfLengths(_, _)
SumOfLengths(ts, i) ==
    IF i > Len(ts) THEN 0 ELSE Len(ts[i].dependencies) + SumOfLengths(ts, i + 1)
\* V + E: the tasks and the entries of their dependency lists
TasksAndEdges(ts) == Len(ts) + SumOfLengths(ts, 1)
Occurrences(seq, x) == Cardinality({k \in 1..Len(seq) : seq[k] = x})
TraceIds(trace) == [k \in 1..Len(trace) |-> trace[k].id]
Mentioned(ts) == TaskIds(ts) \cup UNION {Range(ts[i].dependencies) : i \in 1..Len(ts)}

C21_TerminatesWithSingleVisits ==
    Computed =>
        /\ cpm.status \in {"ok", "cycle", "TypeError"}
        /\ cpm.visitCalls <= TasksAndEdges(tasks)
        /\ SortSucceeded =>
              \A id \in Mentioned(tasks) : Occurrences(cpm.sortedIds, id) = 1
        /\ \A id \in TaskIds(tasks) :
              /\ Occurrences(TraceIds(cpm.forwardTrace), id) <= 1
              /\ Occurrences(TraceIds(cpm.backwardTrace), id) <= 1
        /\ cpm.status = "ok" =>
              \A id \in TaskIds(tasks) :
                  /\ Occurrences(TraceIds(cpm.forwardTrace), id) = 1
                  /\ Occurrences(TraceIds(cpm.backwardTrace), id) = 1

\* a list of three tasks given with the dependent tasks first has been
\* sorted with four calls of visit and passed over in both directions
C21_Witness ==
    /\ Computed /\ Len(tasks) = 3 /\ cpm.status = "ok"
    /\ tasks[1].dependencies = <<"2", "3">>
    /\ tasks[2].dependencies = <<"3">>
    /\ cpm.visitCalls = 4
    /\ Len(cpm.forwardTrace) = 3 /\ Len(cpm.backwardTrace) = 3

(***************************************************************************)
(* C22.  Whenever topologicalSort succeeds, the returned order contains    *)
(* each id of the input task list exactly once and contains no id that is  *)
(* not the id of an input task, so every id that the forward and backward  *)
(* passes look up in the node map is present there.                        *)
(***************************************************************************)
OrderHoldsTaskIdsOnly == Range(cpm.sortedIds) \subseteq TaskIds(tasks)
EveryLookupFindsANode ==
    LET nodeMap == BuildNodeMap(tasks, 1, EmptyMap)
    IN  /\ \A k \in 1..Len(cpm.sortedIds) : MapHas(nodeMap, cpm.sortedIds[k])
        /\ cpm.status # "TypeError"

C22_OrderHoldsOnlyTaskIds ==
    (Computed /\ UniqueIds(tasks) /\ SortSucceeded) =>
        /\ \A id \in TaskIds(tasks) : Occurrences(cpm.sortedIds, id) = 1
        /\ OrderHoldsTaskIdsOnly
        /\ EveryLookupFindsANode

\* the part of it that the code keeps: the ids of the tasks, each once
C22_OrderHoldsEveryTaskIdOnce ==
    (Computed /\ UniqueIds(tasks) /\ SortSucceeded) =>
        /\ \A id \in TaskIds(tasks) : Occurrences(cpm.sortedIds, id) = 1
        /\ (OrderHoldsTaskIdsOnly <=> ~HasDangling(tasks))
        /\ (EveryLookupFindsANode <=> ~HasDangling(tasks))

(***************************************************************************)
(* C23.  When the dependency graph contains a cycle, calculateCPM does not *)
(* throw: it returns one node per task, each with its duration computed    *)
(* from the formula and with earlyStart, earlyFinish, lateStart,           *)
(* lateFinish and slack 0 and isCritical false, also for the tasks that    *)
(* are neither on the cycle nor downstream of it.                          *)
(***************************************************************************)
\* (o + 4m + p) / 6, both sides in units of 1/Scale
DurationFromFormula(n, t) ==
    n.duration * 6 = (t.optimistic + 4 * t.likely + t.pessimistic) * Scale

C23_CycleReturnsZeroNodes ==
    (Computed /\ UniqueIds(tasks) /\ ~Acyclic(tasks)) =>
        /\ cpm.status = "cycle"
        /\ OneNodePerTask
        /\ \A i \in 1..Len(cpm.nodes) :
              /\ DurationFromFormula(cpm.nodes[i], tasks[i])
              /\ ZeroNode(cpm.nodes[i])

\* tasks 2 and 3 form a loop; task 1 is apart from it and has a duration
C23_Witness ==
    /\ Computed /\ Len(tasks) = 3 /\ UniqueIds(tasks)
    /\ tasks[1].dependencies = <<>>
    /\ tasks[2].dependencies = <<tasks[3].id>>
    /\ tasks[3].dependencies = <<tasks[2].id>>
    /\ cpm.status = "cycle"
    /\ cpm.nodes[1].duration > 0 /\ ZeroNode(cpm.nodes[1])

(***************************************************************************)
(* C24.  For every acyclic task list with non-negative durations and       *)
(* resolvable dependencies, every returned node has                        *)
(* 0 <= earlyStart <= lateStart and                                        *)
(* earlyStart <= earlyFinish <= lateFinish <= project duration, and its    *)
(* lateStart is at most the lateStart of every task that depends on it     *)
(* minus its own duration.                                                 *)
(***************************************************************************)
Dependents(n) ==
    {m \in Range(cpm.nodes) : n.id \in Range(m.dependencies)}
TimesInOrder(n) ==
    /\ 0 <= n.earlyStart /\ n.earlyStart <= n.lateStart
    /\ n.earlyStart <= n.earlyFinish /\ n.earlyFinish <= n.lateFinish
    /\ n.lateFinish <= cpm.ceiling
    /\ \A m \in Dependents(n) : n.lateStart <= m.lateStart - n.duration

OrderEstimates ==
    << <<1, 2, 3>>, <<2, 2, 5>>, <<0, 3, 6>>, <<1, 1, 1>>, <<4, 4, 4>> >>
OrderProjects ==
    UNION { { [i \in 1..k |-> Task(IdOf(i), OrderEstimates[i], SeqOfIds(deps[i]))] :
                 deps \in [1..k -> SUBSET DepIds] } : k \in 0..MaxTasks }

OrdersOf(n) ==
    {p \in [1..n -> 1..n] : \A i, j \in 1..n : p[i] = p[j] => i = j}
Reverse(seq) == [i \in 1..Len(seq) |-> seq[Len(seq) + 1 - i]]
RewriteKinds == {"same", "reversed", "repeated"}
Rewritten(deps, kind) ==
    CASE kind = "same" -> deps
      [] kind = "reversed" -> Reverse(deps)
      [] kind = "repeated" -> deps \o deps
Reordered(ts, p, kind) ==
    [i \in 1..Len(ts) |->
        [ts[p[i]] EXCEPT !.dependencies = Rewritten(@, kind)]]

InitOrder ==
    /\ tasks \in OrderProjects
    /\ cpm = NotComputed
    /\ projectDuration = 0
    /\ edits = 0
    /\ pc = "input"
    /\ projectStartDate = <<>>
    /\ calendarDates = EmptyMap
    /\ hostOffset = 0
    /\ other = NoOther

\* calculateCPM is called on another writing of the list
CallReordered ==
    /\ pc # "input"
    /\ other.cpm.status = "none"
    /\ \E p \in OrdersOf(Len(tasks)), kind \in RewriteKinds :
          \E result \in {calculateCPM(Reordered(tasks, p, kind))} :
             other' = [tasks |-> Reordered(tasks, p, kind), cpm |-> result]
    /\ UNCHANGED <<tasks, cpm, projectDuration, edits, pc, projectStartDate,
                   calendarDates, hostOffset>>

NextOrder ==
    \/ Compute
    \/ CallReordered

SpecOrder == InitOrder /\ [][NextOrder]_vars

(***************************************************************************)
(* C25.  The values computed for each task id (duration, early and late    *)
(* times, slack, isCritical) do not depend on the order of the tasks in    *)
(* the input list, on the order of the ids inside a dependency list, or on *)
(* an id being repeated inside a dependency list; only the order of the    *)
(* returned array follows the input order.                                 *)
(***************************************************************************)
SameValues(n, m) ==
    /\ n.duration = m.duration
    /\ n.earlyStart = m.earlyStart /\ n.earlyFinish = m.earlyFinish
    /\ n.lateStart = m.lateStart /\ n.lateFinish = m.lateFinish
    /\ n.slack = m.slack /\ n.isCritical = m.isCritical
BothComputed == pc # "input" /\ other.cpm.status # "none"

C25_ValuesIndependentOfOrder ==
    BothComputed =>
        /\ other.cpm.status = cpm.status
        /\ Len(other.cpm.nodes) = Len(cpm.nodes)
        /\ \A i \in 1..Len(cpm.nodes) :
              SameValues(cpm.nodes[i], NodeById(other.cpm.nodes, cpm.nodes[i].id))
        /\ \A i \in 1..Len(other.cpm.nodes) :
              other.cpm.nodes[i].id = other.tasks[i].id

\* task "3", with the dependencies "1" and "2", has been computed first in the
\* list with its dependency ids written twice, and last with each written once
C25_Witness ==
    /\ BothComputed /\ cpm.status = "ok" /\ Len(tasks) = 3
    /\ tasks[2].dependencies = <<"1">>
    /\ tasks[3].dependencies = <<"1", "2">>
    /\ other.tasks[1].id = "3"
    /\ other.tasks[1].dependencies = <<"1", "2", "1", "2">>
    /\ other.cpm.nodes[1].earlyStart = 27
    /\ other.cpm.nodes[1].earlyStart = cpm.nodes[3].earlyStart

(***************************************************************************)
(* C26.  For every valid start date and every acyclic task list with       *)
(* non-negative durations, the calendar map has exactly one entry per      *)
(* node, each entry's endDate is not before its startDate, and a task's    *)
(* startDate is not before the endDate of any of its resolvable            *)
(* dependencies: it is the latest such endDate when the task has           *)
(* dependencies.                                                           *)
(***************************************************************************)
NotBefore(a, b) == DayNumber(a) >= DayNumber(b)
OneEntryPerNode ==
    /\ Len(calendarDates.keys) = Len(cpm.nodes)
    /\ \A i \in 1..Len(cpm.nodes) : MapHas(calendarDates, cpm.nodes[i].id)
EntryInOrder(n) ==
    LET entry == MapGet(calendarDates, n.id)
        ends == {MapGet(calendarDates, d).endDate : d \in ResolvableDeps(n)}
    IN  /\ NotBefore(entry.endDate, entry.startDate)
        /\ \A e \in ends : NotBefore(entry.startDate, e)
        /\ ends # {} => entry.startDate \in ends
CalendarInOrder ==
    /\ cpm.status = "ok" /\ OneNodePerTask
    /\ OneEntryPerNode
    /\ \A i \in 1..Len(cpm.nodes) : EntryInOrder(cpm.nodes[i])

C26_CalendarFollowsDependencies ==
    (Computed /\ IsCalendarDate(projectStartDate) /\ ValidDag
        /\ NonNegativeDurations(tasks)) => CalendarInOrder

\* the same with every dependency id naming a task of the list
C26_CalendarFollowsDependenciesWhenResolvable ==
    (Computed /\ IsCalendarDate(projectStartDate) /\ ValidDag
        /\ NonNegativeDurations(tasks) /\ Resolvable) => CalendarInOrder

(***************************************************************************)
(* server.ts: POST /api/projects/:id/export-todos, and its caller          *)
(* handleExportToTodo of App.tsx.  The browser runs hostOffset hours east  *)
(* of UTC and the server serverOffset hours; in this specification the     *)
(* variable other holds the server: its offset, and the request and the    *)
(* response of the last export.  A task of the request body carries        *)
(* earlyStart and earlyFinish or lacks them (hasEarlyStart,                *)
(* hasEarlyFinish).                                                        *)
(***************************************************************************)
\* pertNodes.map(n => ({id, ..., earlyStart, earlyFinish, duration}))
nodesForExport(pertNodes) ==
    [i \in 1..Len(pertNodes) |->
        [id |-> pertNodes[i].id, optimistic |-> pertNodes[i].optimistic,
         likely |-> pertNodes[i].likely, pessimistic |-> pertNodes[i].pessimistic,
         hasEarlyStart |-> TRUE, earlyStart |-> pertNodes[i].earlyStart,
         hasEarlyFinish |-> TRUE, earlyFinish |-> pertNodes[i].earlyFinish]]

\* project.tasks, which the route takes when the body holds no tasks
SavedTasks(ts) ==
    [i \in 1..Len(ts) |->
        [id |-> ts[i].id, optimistic |-> ts[i].optimistic,
         likely |-> ts[i].likely, pessimistic |-> ts[i].pessimistic,
         hasEarlyStart |-> FALSE, earlyStart |-> 0,
         hasEarlyFinish |-> FALSE, earlyFinish |-> 0]]

\* the instants new Date() may give: a morning and a late evening in UTC
ServerClocks ==
    { [nan |-> FALSE, time |-> 24 * DayNumber(<<2026, 6, 15>>) + 9],
      [nan |-> FALSE, time |-> 24 * DayNumber(<<2026, 6, 15>>) + 23] }

\* the body of for (const task of pertTasks)
TodoOf(task, baseDate) ==
    LET expectedDuration == task.optimistic + 4 * task.likely + task.pessimistic
        earlyStart == IF task.hasEarlyStart THEN task.earlyStart ELSE 0
        earlyFinish == IF task.hasEarlyFinish THEN task.earlyFinish
                       ELSE earlyStart + expectedDuration
    IN  [pertTaskId |-> task.id,
         scheduledDate |-> ISODateString(SetDatePlus(baseDate, MathRound(earlyStart))),
         dueDate |-> ISODateString(SetDatePlus(baseDate, MathRound(earlyFinish))),
         durationDays |-> MathRound(expectedDuration)]

\* the route: toISOString of an Invalid Date throws a RangeError, which ends
\* the request with status 500 at the first task
ExportTodos(pertTasks, startDate, now, offset) ==
    LET baseDate == IF startDate # <<>> THEN LocalMidnight(startDate, offset)
                    ELSE now
    IN  IF baseDate.nan /\ Len(pertTasks) > 0
        THEN [status |-> 500, todos |-> <<>>]
        ELSE [status |-> 201,
              todos |-> [i \in 1..Len(pertTasks) |-> TodoOf(pertTasks[i], baseDate)]]

NoExport == [status |-> 0, todos |-> <<>>]

\* chains of two tasks of 5 and 2.5 days, the default project, and a loop
ExportProjects ==
    { << Task("1", a, <<>>), Task("2", b, <<"1">>) >> :
         a \in {<<5, 5, 5>>, <<2, 2, 5>>}, b \in {<<5, 5, 5>>, <<2, 2, 5>>} }
    \cup { DefaultTasks, << Task("1", <<5, 5, 5>>, <<"1">>) >> }

InitExport ==
    /\ tasks \in ExportProjects
    /\ hostOffset \in HostOffsets
    /\ projectStartDate = <<>>
    /\ edits = 0
    /\ \E offset \in HostOffsets :
          other = [serverOffset |-> offset, pertTasks |-> <<>>,
                   startDate |-> <<>>, response |-> NoExport]
    /\ Rendered(calculateCPM(tasks))

\* handleExportToTodo: the computed nodes and the start date are posted
ExportToTodo ==
    /\ pc = "rendered"
    /\ \E now \in ServerClocks :
          other' = [other EXCEPT
                       !.pertTasks = nodesForExport(cpm.nodes),
                       !.startDate = projectStartDate,
                       !.response = ExportTodos(nodesForExport(cpm.nodes),
                                        projectStartDate, now, other.serverOffset)]
    /\ UNCHANGED <<tasks, cpm, projectDuration, edits, pc, projectStartDate,
                   calendarDates, hostOffset>>

\* a request whose body holds the start date and no tasks
ExportSavedTasks ==
    /\ pc = "rendered"
    /\ \E now \in ServerClocks :
          other' = [other EXCEPT
                       !.pertTasks = SavedTasks(tasks),
                       !.startDate = projectStartDate,
                       !.response = ExportTodos(SavedTasks(tasks),
                                        projectStartDate, now, other.serverOffset)]
    /\ UNCHANGED <<tasks, cpm, projectDuration, edits, pc, projectStartDate,
                   calendarDates, hostOffset>>

NextExport ==
    \/ SetProjectStartDate
    \/ ExportToTodo
    \/ ExportSavedTasks

SpecExport == InitExport /\ [][NextExport]_vars

(***************************************************************************)
(* C27.  For the same valid start date and the same nodes, the export path *)
(* creates exactly one todo per exported task whose scheduledDate and      *)
(* dueDate equal the startDate and endDate that computeCalendarDates gives *)
(* for that task, and whose durationDays equals the number of days from    *)
(* scheduledDate to dueDate; a task that arrives without earlyStart and    *)
(* earlyFinish is exported with earlyStart = 0 and earlyFinish =           *)
(* earlyStart + expected duration.                                         *)
(***************************************************************************)
Exported ==
    /\ pc = "rendered" /\ other.response.status # 0
    /\ other.startDate = projectStartDate /\ IsCalendarDate(projectStartDate)
ExportedNodes ==
    Exported /\ \A i \in 1..Len(other.pertTasks) : other.pertTasks[i].hasEarlyStart
ExportedSavedTasks ==
    Exported /\ \A i \in 1..Len(other.pertTasks) : ~other.pertTasks[i].hasEarlyStart
OneTodoPerTask ==
    /\ other.response.status = 201
    /\ Len(other.response.todos) = Len(other.pertTasks)
    /\ \A i \in 1..Len(other.pertTasks) :
          other.response.todos[i].pertTaskId = other.pertTasks[i].id
DatesOfCalendar ==
    \A i \in 1..Len(other.response.todos) :
        LET todo == other.response.todos[i]
            entry == MapGet(calendarDates, todo.pertTaskId)
        IN  todo.scheduledDate = entry.startDate /\ todo.dueDate = entry.endDate
DurationIsSpan ==
    \A i \in 1..Len(other.response.todos) :
        LET todo == other.response.todos[i]
        IN  todo.durationDays = DayNumber(todo.dueDate) - DayNumber(todo.scheduledDate)
DefaultsUsed ==
    \A i \in 1..Len(other.response.todos) :
        LET todo == other.response.todos[i]
            task == other.pertTasks[i]
            base == LocalMidnight(other.startDate, other.serverOffset)
            expected == task.optimistic + 4 * task.likely + task.pessimistic
        IN  /\ todo.scheduledDate = ISODateString(SetDatePlus(base, MathRound(0)))
            /\ todo.dueDate = ISODateString(SetDatePlus(base, MathRound(0 + expected)))

C27_ExportMatchesCalendar ==
    /\ ExportedNodes => OneTodoPerTask /\ DatesOfCalendar /\ DurationIsSpan
    /\ ExportedSavedTasks => OneTodoPerTask /\ DefaultsUsed

\* what the route keeps: one todo per task and the defaults, on every pair of
\* hosts; the dates of the calendar when browser and server are on the same
\* side of UTC
C27_ExportMatchesCalendarOnOneSideOfUtc ==
    /\ ExportedNodes =>
          /\ OneTodoPerTask
          /\ ((hostOffset > 0) <=> (other.serverOffset > 0)) => DatesOfCalendar
    /\ ExportedSavedTasks => OneTodoPerTask /\ DefaultsUsed

\* a browser ahead of UTC and a server that is not: every todo is dated one
\* day after the calendar entry of its task
C27_ExportOneDayLaterThanCalendar ==
    (ExportedNodes /\ hostOffset > 0 /\ other.serverOffset <= 0) =>
        \A i \in 1..Len(other.response.todos) :
            LET todo == other.response.todos[i]
                entry == MapGet(calendarDates, todo.pertTaskId)
            IN  /\ DayNumber(todo.scheduledDate) = DayNumber(entry.startDate) + 1
                /\ DayNumber(todo.dueDate) = DayNumber(entry.endDate) + 1

(***************************************************************************)
(* C28.  As claimed: when two tasks of the input list share an id,         *)
(* calculateCPM returns a single node for that id built from the last task *)
(* with that id, and the successor lists used by the backward pass contain *)
(* only edges declared by the task definitions that survive in the node    *)
(* map, so that every node's lateFinish is still the minimum lateStart     *)
(* over the nodes whose own dependency list names it.                      *)
(***************************************************************************)
FirstIndex(ts, id) == SetMin({i \in 1..Len(ts) : ts[i].id = id})
LastTask(ts, id) == ts[SetMax({i \in 1..Len(ts) : ts[i].id = id})]
SingleNodeFromLastTask ==
    /\ NodeIds = TaskIds(tasks)
    /\ Len(cpm.nodes) = Cardinality(TaskIds(tasks))
    /\ \A i \in 1..Len(cpm.nodes) :
          LET n == cpm.nodes[i]
              t == LastTask(tasks, n.id)
          IN  /\ n.optimistic = t.optimistic /\ n.likely = t.likely
              /\ n.pessimistic = t.pessimistic
              /\ n.dependencies = t.dependencies
              /\ DurationFromFormula(n, t)
SuccessorsOfSurvivorsOnly ==
    LET succ == BuildSuccessorsMap(tasks)
    IN  \A id \in TaskIds(tasks) :
           \A s \in Range(MapGet(succ, id)) :
              id \in Range(LastTask(tasks, s).dependencies)
LateFinishFromNamingNodes ==
    \A i \in 1..Len(cpm.nodes) :
        LET n == cpm.nodes[i]
            lss == {m.lateStart : m \in Dependents(n)}
        IN  n.lateFinish = IF lss = {} THEN cpm.ceiling ELSE SetMin(lss)

C28_DuplicateIdsKeepSurvivingEdges ==
    (Computed /\ ~UniqueIds(tasks) /\ Returned) =>
        /\ SingleNodeFromLastTask
        /\ SuccessorsOfSurvivorsOnly
        /\ cpm.status = "ok" => LateFinishFromNamingNodes

(***************************************************************************)
(* C28 as amended: when two tasks of the input list share an id,           *)
(* calculateCPM returns a single node for that id, at the place of the     *)
(* first task with that id and built from the last one, and the successor  *)
(* lists used by the backward pass hold one entry for every naming of the  *)
(* id in the dependency list of any task of the input list, the tasks      *)
(* replaced in the node map included; a node's lateFinish is the project   *)
(* duration when its successor list is empty, and otherwise the minimum    *)
(* over its successors of the lateStart the successor has when the node is *)
(* handled: its final lateStart when it comes later in the sorted order,   *)
(* and the initial 0 when it does not.                                     *)
(***************************************************************************)
NodesInOrderOfFirstTask ==
    \A i, j \in 1..Len(cpm.nodes) :
        i < j => FirstIndex(tasks, cpm.nodes[i].id) < FirstIndex(tasks, cpm.nodes[j].id)
\* how often the tasks with id x name id in their dependency lists
Namings(ts, id, x) ==
    Cardinality(UNION {{<<i, k>> : k \in Positions(ts[i].dependencies, id)} :
                          i \in {j \in 1..Len(ts) : ts[j].id = x}})
SuccessorsOfEveryTask ==
    LET succ == BuildSuccessorsMap(tasks)
    IN  /\ Range(succ.keys) = TaskIds(tasks)
        /\ \A id \in TaskIds(tasks), x \in TaskIds(tasks) :
              Occurrences(MapGet(succ, id), x) = Namings(tasks, id, x)
        /\ \A id \in TaskIds(tasks) : Range(MapGet(succ, id)) \subseteq TaskIds(tasks)
LateFinishFromSuccessorLists ==
    LET succ == BuildSuccessorsMap(tasks)
    IN  \A i \in 1..Len(cpm.nodes) :
           LET n == cpm.nodes[i]
               lss == {IF Before(cpm.sortedIds, n.id, s)
                       THEN NodeById(cpm.nodes, s).lateStart ELSE 0 :
                          s \in Range(MapGet(succ, n.id))}
           IN  n.lateFinish = IF lss = {} THEN cpm.ceiling ELSE SetMin(lss)

C28_DuplicateIdsKeepEveryEdge ==
    (Computed /\ ~UniqueIds(tasks) /\ Returned) =>
        /\ SingleNodeFromLastTask
        /\ NodesInOrderOfFirstTask
        /\ SuccessorsOfEveryTask
        /\ cpm.status = "ok" => LateFinishFromSuccessorLists

\* the first task "1" names "2" and the last task "1" names nothing: "2" is
\* handled with a successor that has not been handled and gets lateFinish 0
C28_Witness ==
    /\ Computed /\ Len(tasks) = 3 /\ cpm.status = "ok"
    /\ tasks[1].id = "1" /\ tasks[2].id = "2" /\ tasks[3].id = "1"
    /\ tasks[1].dependencies = <<"2">>
    /\ tasks[2].dependencies = <<>> /\ tasks[3].dependencies = <<>>
    /\ Len(cpm.nodes) = 2
    /\ cpm.nodes[2].lateFinish = 0 /\ cpm.ceiling > 0
    /\ cpm.nodes[2].slack < 0

=============================================================================
